---- MODULE Spec2Model ----
(***************************************************************************)
(* KuisNesa: the survey storage layer (crud.py, models.py, the routes of   *)
(* main.py) and the text analytics of utils.py.                            *)
(*                                                                         *)
(* Three specifications share the variables:                               *)
(*   Spec          the storage layer and the survey routes                 *)
(*   SpecText      clean_text applied to bounded strings                   *)
(*   SpecAnalytics lda_topic_modeling / extract_keywords on bounded corpora*)
(***************************************************************************)
EXTENDS Integers, Sequences, FiniteSets, Bags, TLC

VARIABLES
    users,       \* table users: set of rows [id, email, nama, role, photo_url]
    kuisioners,  \* table kuisioners: set of rows [id, title, description,
                 \* background, theme, access, end_date, owner_id]
    questions,   \* table questions: set of rows [id, kuisioner_id, text]
    responses,   \* table responses: bag of rows [user_id, question_id, answer]
                 \* (the serial primary key, which no handler reads, is left out)
    nextId,      \* the serial primary-key counters of the other tables
    sessions,    \* emails for which auth_callback has issued a session cookie
    reqs,        \* POST /survey/{kid} requests in flight, one record per slot
    text,        \* SpecText: the input string, a sequence of characters
    cleaned,     \* SpecText: results of the clean_text applications made so far
    corpus,      \* SpecAnalytics: the response rows handed to the analytics
    result,      \* SpecAnalytics: what the last analytics call returned
    ldaRuns,     \* SpecLda: the runs of lda_topic_modeling made so far
    figs,        \* pyplot's open figures in creation order; the last is current
    files,       \* the chart files on disk, by path
    renders      \* the chart-render calls in flight, one record per slot

dbVars == <<users, kuisioners, questions, responses, nextId, sessions, reqs>>
textVars == <<text, cleaned>>
anaVars == <<corpus, result, ldaRuns>>
chartVars == <<figs, files, renders>>
vars == <<users, kuisioners, questions, responses, nextId, sessions, reqs,
          text, cleaned, corpus, result, ldaRuns, figs, files, renders>>

None == "None"

\* the value of `result` before any analytics call
NoResult == [op |-> "none", kind |-> "none"]

(***************************************************************************)
(* utils.py, charts: the names and paths of the chart files, and the       *)
(* state before any render.                                                *)
(***************************************************************************)
BASE_DIR == "static"

\* the filename argument of the chart functions: plain file names
ChartFilenames == {"a.png", "b.png"}

\* every render writes to one and the same file
FixedChartPath(filename) == <<BASE_DIR, "charts", "chart.png">>

\* os.path.join(BASE_DIR, "charts", filename), as its components
ChartPath(filename) == <<BASE_DIR, "charts", filename>>

ChartPaths == {ChartPath(f) : f \in ChartFilenames}

\* threads that run a chart function at the same time
ChartSlots == {1, 2}

\* no file at a path
NoFile == [kind |-> "none", by |-> 0, saved_by |-> 0]

\* a slot in which no chart function runs
IdleRender == [pc |-> "idle", name |-> "none", filename |-> "none",
               built |-> "none", path |-> <<>>, order |-> 0, out |-> None]

ChartsIdle ==
    /\ figs = <<>>
    /\ files = [p \in ChartPaths |-> NoFile]
    /\ renders = [s \in ChartSlots |-> IdleRender]

(***************************************************************************)
(* Bounds of the storage model.                                            *)
(***************************************************************************)
MaxKuisioners == 1
MaxQuestions == 1

Emails == {"dosen@unesa.ac.id", "tamu@gmail.com"}
Names == {"Ani"}
Titles == {"Survei"}
QuestionTexts == {"Pendapat?"}
\* values of a form field q_<id>; "" is a field left empty
FormValues == {"", "ya"}
\* answers passed to crud.create_response
Answers == {"ya"}
\* slots for concurrently running survey submissions
Slots == {1, 2}

KuisionerIds == 1..MaxKuisioners
QuestionIds == 1..MaxQuestions
UserIds == 1..Cardinality(Emails)

\* main.py:39  email.endswith("@unesa.ac.id") or email.endswith("@mhs.unesa.ac.id")
IsUnesaEmail(email) == email \in {"dosen@unesa.ac.id", "mhs@mhs.unesa.ac.id"}

(***************************************************************************)
(* Queries                                                                 *)
(***************************************************************************)
\* db.query(models.User).filter(models.User.email == email).first()
HasUser(email) == \E u \in users : u.email = email
UserByEmail(email) == CHOOSE u \in users : u.email = email

\* crud.get_kuisioner
HasKuisioner(kid) == \E k \in kuisioners : k.id = kid
get_kuisioner(kid) == CHOOSE k \in kuisioners : k.id = kid

\* the ids of a set of rows in ascending order
RECURSIVE SortedIds(_)
SortedIds(S) ==
    IF S = {} THEN <<>>
    ELSE LET m == CHOOSE x \in S : \A y \in S : x <= y
         IN <<m>> \o SortedIds(S \ {m})

\* kuisioner.questions: the question rows of one kuisioner, by primary key
QuestionsOf(kid) == SortedIds({q.id : q \in {x \in questions : x.kuisioner_id = kid}})

\* create_response without its existence query
NoExistingCheck(rows, user_id, question_id) == FALSE

\* db.query(models.Response).filter_by(user_id=..., question_id=...).first()
ExistingResponse(rows, user_id, question_id) ==
    \E r \in BagToSet(rows) : r.user_id = user_id /\ r.question_id = question_id

\* the responses table without its uniqueness constraint
NoUniqueConstraint(rows, user_id, question_id) == TRUE

\* UniqueConstraint("user_id", "question_id", name="unique_user_response"):
\* TRUE when the storage layer accepts a new row for the pair
UniqueUserResponse(rows, user_id, question_id) ==
    ~ \E r \in BagToSet(rows) : r.user_id = user_id /\ r.question_id = question_id

\* db.add(models.Response(...)) and db.commit(): the table with one more row
InsertResponse(rows, user_id, question_id, answer) ==
    rows (+) SetToBag({[user_id |-> user_id, question_id |-> question_id,
                        answer |-> answer]})

\* the responses table without its foreign keys
NoForeignKeys(user_id, question_id) == TRUE

\* ForeignKey("users.id"), ForeignKey("questions.id") of a response row
ResponseForeignKeys(user_id, question_id) ==
    /\ \E u \in users : u.id = user_id
    /\ \E q \in questions : q.id = question_id

(***************************************************************************)
(* crud.get_or_create_user: the users table after the call, and the row    *)
(* the call returns.                                                       *)
(***************************************************************************)
\* get_or_create_user assigning nama whatever its value
UsersAfterOverwrite(email, nama, role, photo_url) ==
    IF HasUser(email)
    THEN LET u == UserByEmail(email)
             u1 == [u EXCEPT !.nama = nama]
             u2 == IF photo_url # None /\ photo_url # ""
                   THEN [u1 EXCEPT !.photo_url = photo_url] ELSE u1
         IN (users \ {u}) \cup {u2}
    ELSE users \cup {[id |-> nextId.user, email |-> email, nama |-> nama,
                      role |-> role, photo_url |-> photo_url]}

UsersAfterGetOrCreate(email, nama, role, photo_url) ==
    IF HasUser(email)
    THEN LET u == UserByEmail(email)
             u1 == IF nama # "" THEN [u EXCEPT !.nama = nama] ELSE u
             u2 == IF photo_url # None /\ photo_url # ""
                   THEN [u1 EXCEPT !.photo_url = photo_url] ELSE u1
         IN (users \ {u}) \cup {u2}
    ELSE users \cup {[id |-> nextId.user, email |-> email, nama |-> nama,
                      role |-> role, photo_url |-> photo_url]}

NextIdAfterGetOrCreate(email) ==
    IF HasUser(email) THEN nextId
    ELSE [nextId EXCEPT !.user = @ + 1]

UserIdAfterGetOrCreate(email) ==
    IF HasUser(email) THEN UserByEmail(email).id ELSE nextId.user

(***************************************************************************)
(* Routes                                                                  *)
(***************************************************************************)
\* a POST /survey/{kid} request: todo holds <<q.id, ans>> for the answered
\* questions the loop has still to pass to create_response, stored counts the
\* rows the request has committed
IdleReq == [pc |-> "idle", kid |-> 0, user_id |-> 0, todo |-> <<>>, stored |-> 0,
            outcome |-> None]

DoneReq(outcome) == [pc |-> "done", kid |-> 0, user_id |-> 0, todo |-> <<>>,
                     stored |-> 0, outcome |-> outcome]

\* the request r has been answered; the rows it committed stay committed
Finish(r, outcome) == [DoneReq(outcome) EXCEPT !.stored = r.stored]

\* the slot a new request takes: the first one that is not running
FreeSlot(s) ==
    /\ reqs[s].pc \in {"idle", "done"}
    /\ \A t \in Slots : t < s => reqs[t].pc \notin {"idle", "done"}

\* GET /auth/callback
AuthCallback(email, nama) ==
    /\ IsUnesaEmail(email)
    /\ IF ~ HasUser(email)
       THEN /\ users' = users \cup {[id |-> nextId.user, email |-> email,
                                     nama |-> nama, role |-> "mahasiswa",
                                     photo_url |-> None]}
            /\ nextId' = [nextId EXCEPT !.user = @ + 1]
       ELSE /\ users' = (users \ {UserByEmail(email)})
                          \cup {[UserByEmail(email) EXCEPT !.nama = nama]}
            /\ nextId' = nextId
    /\ sessions' = sessions \cup {email}
    /\ UNCHANGED <<kuisioners, questions, responses, reqs>>
    /\ UNCHANGED <<textVars, anaVars, chartVars>>

\* a DateTime column holding NULL; a datetime is <<year, month, day>>
NoDate == <<>>

\* a kuisioner row stored without the user who created it
NewKuisionerUnowned(id, title, owner_id, desc, bg) ==
    [id |-> id, title |-> title, description |-> desc, background |-> bg,
     theme |-> "light", access |-> "public", end_date |-> NoDate, owner_id |-> 0]

\* crud.create_kuisioner: models.Kuisioner(title, owner_id, description,
\* background), the other columns at their defaults
NewKuisioner(id, title, owner_id, desc, bg) ==
    [id |-> id, title |-> title, description |-> desc, background |-> bg,
     theme |-> "light", access |-> "public", end_date |-> NoDate,
     owner_id |-> owner_id]

\* POST /kuisioner/create with the form's defaults: description None,
\* background "white"
CreateKuisioner(email, title) ==
    /\ email \in sessions
    /\ HasUser(email)
    /\ nextId.kuisioner <= MaxKuisioners
    /\ kuisioners' = kuisioners \cup
          {NewKuisioner(nextId.kuisioner, title, UserByEmail(email).id,
                        None, "white")}
    /\ nextId' = [nextId EXCEPT !.kuisioner = @ + 1]
    /\ UNCHANGED <<users, questions, responses, sessions, reqs>>
    /\ UNCHANGED <<textVars, anaVars, chartVars>>

\* POST /kuisioner/{kid}/add_question, crud.add_question
AddQuestion(kid, qtext) ==
    /\ nextId.question <= MaxQuestions
    /\ HasKuisioner(kid)                     \* ForeignKey("kuisioners.id")
    /\ questions' = questions \cup {[id |-> nextId.question, kuisioner_id |-> kid,
                                     text |-> qtext]}
    /\ nextId' = [nextId EXCEPT !.question = @ + 1]
    /\ UNCHANGED <<users, kuisioners, responses, sessions, reqs>>
    /\ UNCHANGED <<textVars, anaVars, chartVars>>

\* Query.delete on the responses of the questions question_ids: the rows of
\* the other questions stay, each as often as before
KeepRows(rows, question_ids) ==
    LET kept == {r \in BagToSet(rows) : r.question_id \notin question_ids}
    IN [r \in kept |-> rows[r]]

\* POST /kuisioner/{kid}/delete: the responses of the kuisioner's questions,
\* its questions and the kuisioner go in one transaction.  The route reads
\* no session cookie.
DeleteKuisioner(kid) ==
    /\ HasKuisioner(kid)
    /\ LET question_ids == {q.id : q \in {x \in questions : x.kuisioner_id = kid}}
       IN responses' = KeepRows(responses, question_ids)
    /\ questions' = {q \in questions : q.kuisioner_id # kid}
    /\ kuisioners' = {k \in kuisioners : k.id # kid}
    /\ UNCHANGED <<users, nextId, sessions, reqs>>
    /\ UNCHANGED <<textVars, anaVars, chartVars>>

\* POST /question/{question_id}/delete: 404 for an unknown id, else the
\* question's responses and the question go.  The route reads no session
\* cookie.
DeleteQuestion(question_id) ==
    /\ \E q \in questions : q.id = question_id
    /\ responses' = KeepRows(responses, {question_id})
    /\ questions' = {q \in questions : q.id # question_id}
    /\ UNCHANGED <<users, kuisioners, nextId, sessions, reqs>>
    /\ UNCHANGED <<textVars, anaVars, chartVars>>

\* POST /question/{question_id}/edit without a media upload: 404 for an
\* unknown id, else the text is replaced.  The route reads no session cookie.
EditQuestion(question_id, qtext) ==
    /\ \E q \in questions : q.id = question_id
    /\ questions' = {IF q.id = question_id THEN [q EXCEPT !.text = qtext] ELSE q :
                        q \in questions}
    /\ UNCHANGED <<users, kuisioners, responses, nextId, sessions, reqs>>
    /\ UNCHANGED <<textVars, anaVars, chartVars>>

\* main.py:145  the request goes on only for the kuisioner's owner
MayEdit(cookie, kid) ==
    /\ cookie \in sessions                \* serializer.loads raises otherwise
    /\ HasUser(cookie)
    /\ HasKuisioner(kid)
    /\ get_kuisioner(kid).owner_id = UserByEmail(cookie).id

\* POST /kuisioner/{kid}/edit without a header image: cookie is the email in
\* the session cookie, None without one
EditKuisioner(cookie, kid, title, description, background, theme, access) ==
    /\ MayEdit(cookie, kid)
    /\ kuisioners' = {IF k.id = kid
                         THEN [k EXCEPT !.title = title,
                                        !.description = description,
                                        !.background = background,
                                        !.theme = theme,
                                        !.access = access]
                         ELSE k : k \in kuisioners}
    /\ UNCHANGED <<users, questions, responses, nextId, sessions, reqs>>
    /\ UNCHANGED <<textVars, anaVars, chartVars>>

\* crud.create_response called on its own: HTTPException(400) when the
\* existence query finds a row, else the insert; an insert the storage layer
\* rejects raises and stores nothing
CreateResponse(user_id, question_id, answer) ==
    /\ IF ExistingResponse(responses, user_id, question_id)
       THEN UNCHANGED responses
       ELSE IF /\ UniqueUserResponse(responses, user_id, question_id)
               /\ ResponseForeignKeys(user_id, question_id)
            THEN responses' = InsertResponse(responses, user_id, question_id, answer)
            ELSE UNCHANGED responses
    /\ UNCHANGED <<users, kuisioners, questions, nextId, sessions, reqs>>
    /\ UNCHANGED <<textVars, anaVars, chartVars>>

\* the loop without `if ans:`: every question of the kuisioner is answered
RECURSIVE AnsweredAll(_, _)
AnsweredAll(qids, form) ==
    IF qids = <<>> THEN <<>>
    ELSE <<(<<Head(qids), form[Head(qids)]>>)>> \o AnsweredAll(Tail(qids), form)

\* the turns of `for q in kuisioner.questions` that reach create_response:
\* <<q.id, ans>> for the questions of qids whose form value is non-empty
RECURSIVE Answered(_, _)
Answered(qids, form) ==
    IF qids = <<>> THEN <<>>
    ELSE IF form[Head(qids)] = ""                                  \* if ans:
         THEN Answered(Tail(qids), form)
         ELSE <<(<<Head(qids), form[Head(qids)]>>)>> \o Answered(Tail(qids), form)

\* the request once the loop has only `todo` left to do: it runs on, or it
\* has left the loop and redirects to /thanks
Continue(r, todo) ==
    IF todo = <<>> THEN Finish(r, "303")
    ELSE [r EXCEPT !.pc = "check", !.todo = todo]

\* POST /survey/{kid}, up to the loop: get_or_create_user, get_kuisioner,
\* kuisioner.questions
SubmitSurvey(s, kid, nama, email, form) ==
    /\ FreeSlot(s)
    /\ users' = UsersAfterGetOrCreate(email, nama, "public", None)
    /\ nextId' = NextIdAfterGetOrCreate(email)
    /\ reqs' = [reqs EXCEPT ![s] =
                  IF ~ HasKuisioner(kid)
                  THEN DoneReq("500")      \* kuisioner.questions on None
                  ELSE Continue([pc |-> "check", kid |-> kid,
                                 user_id |-> UserIdAfterGetOrCreate(email),
                                 todo |-> <<>>, stored |-> 0, outcome |-> None],
                                Answered(QuestionsOf(kid), form))]
    /\ UNCHANGED <<kuisioners, questions, responses, sessions>>
    /\ UNCHANGED <<textVars, anaVars, chartVars>>

\* create_response's existence query for the next answered question
SubmitCheck(s) ==
    /\ reqs[s].pc = "check"
    /\ LET r == reqs[s] IN
       reqs' = [reqs EXCEPT ![s] =
                  IF ExistingResponse(responses, r.user_id, Head(r.todo)[1])
                  THEN Finish(r, "400")   \* HTTPException(400), caught by the route
                  ELSE [r EXCEPT !.pc = "insert"]]
    /\ UNCHANGED <<users, kuisioners, questions, responses, nextId, sessions>>
    /\ UNCHANGED <<textVars, anaVars, chartVars>>

\* create_response's db.add / db.commit, and the loop's step to the next
\* answered question
SubmitInsert(s) ==
    /\ reqs[s].pc = "insert"
    /\ LET r == reqs[s]
           q == Head(r.todo)[1]
           ans == Head(r.todo)[2]
       IN IF /\ UniqueUserResponse(responses, r.user_id, q)
             /\ ResponseForeignKeys(r.user_id, q)
          THEN /\ responses' = InsertResponse(responses, r.user_id, q, ans)
               /\ reqs' = [reqs EXCEPT ![s] =
                             Continue([r EXCEPT !.stored = @ + 1], Tail(r.todo))]
          ELSE \* IntegrityError: not an HTTPException, the request ends in 500
               /\ reqs' = [reqs EXCEPT ![s] = Finish(r, "500")]
               /\ UNCHANGED responses
    /\ UNCHANGED <<users, kuisioners, questions, nextId, sessions>>
    /\ UNCHANGED <<textVars, anaVars, chartVars>>

\* the forms a browser can post for one kuisioner: a value for each field
\* q_<id> the route reads (form.get of any other field is never evaluated)
Forms(kid) == [{q.id : q \in {x \in questions : x.kuisioner_id = kid}} -> FormValues]

(***************************************************************************)
(* utils.py, text cleaning.  A string is a sequence of one-character       *)
(* strings; NoneText stands for Python's None.                             *)
(***************************************************************************)
NoneText == <<"<None>">>

MaxTextLen == 5

\* the characters SpecText builds its inputs from
TextChars == {"a", "B", " ", "\t", "!"}

Letters == {"a", "b", "c", "d", "e", "f", "g", "h", "i", "j", "k", "l", "m",
            "n", "o", "p", "q", "r", "s", "t", "u", "v", "w", "x", "y", "z"}
UpperLetters == {"B", "Y"}
Digits == {"0", "1", "2", "3", "4", "5", "6", "7", "8", "9"}

\* str.lower(), on the upper-case letters the inputs use
LowerChar(c) == CASE c = "B" -> "b" [] c = "Y" -> "y" [] OTHER -> c

\* \s
IsSpace(c) == c \in {" ", "\t", "\n"}

\* [a-zA-Z0-9]
IsAlnum(c) == c \in Letters \cup UpperLetters \cup Digits

Lower(s) == [i \in 1..Len(s) |-> LowerChar(s[i])]

RECURSIVE DropSpaces(_)
DropSpaces(s) ==
    IF s # <<>> /\ IsSpace(Head(s)) THEN DropSpaces(Tail(s)) ELSE s

\* re.sub(r'\s+', ' ', text)
RECURSIVE CollapseWhitespace(_)
CollapseWhitespace(s) ==
    IF s = <<>> THEN <<>>
    ELSE IF IsSpace(Head(s)) THEN <<" ">> \o CollapseWhitespace(DropSpaces(s))
    ELSE <<Head(s)>> \o CollapseWhitespace(Tail(s))

\* re.sub(r'[^a-zA-Z0-9\s]', '', text)
RECURSIVE RemovePunctuation(_)
RemovePunctuation(s) ==
    IF s = <<>> THEN <<>>
    ELSE IF IsAlnum(Head(s)) \/ IsSpace(Head(s))
         THEN <<Head(s)>> \o RemovePunctuation(Tail(s))
         ELSE RemovePunctuation(Tail(s))

RECURSIVE DropTrailingSpaces(_)
DropTrailingSpaces(s) ==
    IF s # <<>> /\ IsSpace(s[Len(s)])
    THEN DropTrailingSpaces(SubSeq(s, 1, Len(s) - 1)) ELSE s

\* str.strip()
Strip(s) == DropTrailingSpaces(DropSpaces(s))

\* `not text`: None or the empty string
Falsy(s) == s = NoneText \/ s = <<>>

clean_text(s) ==
    IF Falsy(s) THEN <<>>
    ELSE Strip(RemovePunctuation(CollapseWhitespace(Lower(s))))

(***************************************************************************)
(* SpecText: clean_text applied to a string, and again to its own result.  *)
(***************************************************************************)
TextInputs == {NoneText} \cup UNION {[1..n -> TextChars] : n \in 0..MaxTextLen}

InitText ==
    /\ text \in TextInputs
    /\ cleaned = <<>>
    /\ users = {} /\ kuisioners = {} /\ questions = {} /\ responses = EmptyBag
    /\ nextId = [user |-> 1, kuisioner |-> 1, question |-> 1]
    /\ sessions = {}
    /\ reqs = [s \in Slots |-> IdleReq]
    /\ corpus = <<>>
    /\ result = NoResult
    /\ ldaRuns = <<>>
    /\ ChartsIdle

CleanOnce ==
    /\ cleaned = <<>>
    /\ cleaned' = <<clean_text(text)>>
    /\ UNCHANGED <<text, dbVars, anaVars, chartVars>>

CleanAgain ==
    /\ Len(cleaned) = 1
    /\ cleaned' = Append(cleaned, clean_text(cleaned[1]))
    /\ UNCHANGED <<text, dbVars, anaVars, chartVars>>

NextText == CleanOnce \/ CleanAgain

SpecText == InitText /\ [][NextText]_vars

(***************************************************************************)
(* utils.py, analytics.  A response row is modelled by its answer, the     *)
(* only field the analytics read.                                          *)
(***************************************************************************)
MaxDocs == 3

\* the arguments the calls are made with (the defaults are n_topics=3,
\* n_words=5, top_n=10)
NTopics == {1, 2}
NWords == {1, 2}
TopNs == {0, 1, 2, 3, 10}

\* CountVectorizer(max_df=0.95, min_df=2): max_df in percent
LdaMaxDfPercent == 95
LdaMinDf == 2
\* TfidfVectorizer(max_df=0.8, min_df=1): max_df in percent
KwMaxDfPercent == 80
KwMinDf == 1

\* the answers a corpus is drawn from
AnswerPool == {
    NoneText,                                           \* None
    <<>>,                                               \* ""
    <<"!", "!">>,                                       \* "!!"
    <<"y", "a", " ", "i", "s">>,                        \* "ya is"
    <<"Y", "a", " ", "o", "k", " ", "x">>,              \* "Ya ok x"
    <<"o", "k", " ", "i", "s", " ", "b", "u">>,         \* "ok is bu"
    <<"i", "s", " ", "t", "h", "e">> }                  \* "is the"

\* stop_words='english': the words of sklearn's ENGLISH_STOP_WORDS that the
\* answers of AnswerPool contain
StopWords == { <<"i", "s">>, <<"t", "h", "e">> }

\* the weights LatentDirichletAllocation.fit may give a term in a topic
LdaWeights == {1, 2}

\* 1000 * ln(k), k = 1..8
LnMilli == <<0, 693, 1099, 1386, 1609, 1792, 1946, 2079>>

\* [clean_text(r.answer) for r in responses if r.answer]
RECURSIVE preprocess_responses(_)
preprocess_responses(rows) ==
    IF rows = <<>> THEN <<>>
    ELSE IF Falsy(Head(rows)) THEN preprocess_responses(Tail(rows))
    ELSE <<clean_text(Head(rows))>> \o preprocess_responses(Tail(rows))

\* the number of rows with a non-empty answer
NonEmptyCount(rows) == Cardinality({i \in 1..Len(rows) : ~ Falsy(rows[i])})

\* \w
IsWordChar(c) == IsAlnum(c) \/ c = "_"

\* the vectorizers' token_pattern r"(?u)\b\w\w+\b": the maximal runs of word
\* characters that are at least two characters long, in order
RECURSIVE Runs(_, _)
Runs(s, run) ==
    IF s = <<>> THEN (IF run = <<>> THEN <<>> ELSE <<run>>)
    ELSE IF IsWordChar(Head(s)) THEN Runs(Tail(s), Append(run, Head(s)))
    ELSE (IF run = <<>> THEN <<>> ELSE <<run>>) \o Runs(Tail(s), <<>>)

RECURSIVE SelectSeqBy(_, _)
SelectSeqBy(s, keep) ==
    IF s = <<>> THEN <<>>
    ELSE IF Head(s) \in keep THEN <<Head(s)>> \o SelectSeqBy(Tail(s), keep)
    ELSE SelectSeqBy(Tail(s), keep)

Range(s) == {s[i] : i \in 1..Len(s)}

Tokenize(doc) ==
    LET runs == Runs(Lower(doc), <<>>)
    IN SelectSeqBy(runs, {r \in Range(runs) : Len(r) >= 2})

\* an analyzer that removes no stop word
KeepStopWords(tokens) == tokens

\* stop-word removal of the analyzer
RemoveStopWords(tokens) == SelectSeqBy(tokens, Range(tokens) \ StopWords)

\* build_analyzer(): the terms of one document
Analyze(doc) == RemoveStopWords(Tokenize(doc))

\* the analyzer applied to every document: docs[d] is the term sequence
\* of document d
RECURSIVE AnalyzeAll(_)
AnalyzeAll(texts) ==
    IF texts = <<>> THEN <<>>
    ELSE <<Analyze(Head(texts))>> \o AnalyzeAll(Tail(texts))

\* the term count of one document
TermCount(term, tokens) == Cardinality({i \in 1..Len(tokens) : tokens[i] = term})

\* the document frequency of a term
DocFreq(term, docs) == Cardinality({d \in 1..Len(docs) : term \in Range(docs[d])})

\* _count_vocab: all terms of the documents
RawVocabulary(docs) == UNION {Range(docs[d]) : d \in 1..Len(docs)}

\* _limit_features: the terms with min_df <= df <= max_df * n_doc
LimitFeatures(docs, maxDfPercent, minDf) ==
    {t \in RawVocabulary(docs) :
        /\ 100 * DocFreq(t, docs) <= maxDfPercent * Len(docs)
        /\ DocFreq(t, docs) >= minDf}

\* fit_transform's ValueError, or "ok"
FitError(docs, maxDfPercent, minDf) ==
    IF RawVocabulary(docs) = {}
    THEN "ValueError: empty vocabulary; perhaps the documents only contain stop words"
    ELSE IF maxDfPercent * Len(docs) < 100 * minDf
    THEN "ValueError: max_df corresponds to < documents than min_df"
    ELSE IF LimitFeatures(docs, maxDfPercent, minDf) = {}
    THEN "ValueError: After pruning, no terms remain. Try a lower min_df or a higher max_df."
    ELSE "ok"

\* the order of the characters in the terms
CharOrder == <<"0", "1", "2", "3", "4", "5", "6", "7", "8", "9", "_",
               "a", "b", "c", "d", "e", "f", "g", "h", "i", "j", "k", "l", "m",
               "n", "o", "p", "q", "r", "s", "t", "u", "v", "w", "x", "y", "z">>
Ord(c) == CHOOSE i \in 1..Len(CharOrder) : CharOrder[i] = c

RECURSIVE LexLess(_, _)
LexLess(a, b) ==
    IF b = <<>> THEN FALSE
    ELSE IF a = <<>> THEN TRUE
    ELSE IF Head(a) = Head(b) THEN LexLess(Tail(a), Tail(b))
    ELSE Ord(Head(a)) < Ord(Head(b))

\* get_feature_names_out(): the vocabulary in sorted order
RECURSIVE SortTerms(_)
SortTerms(S) ==
    IF S = {} THEN <<>>
    ELSE LET m == CHOOSE x \in S : \A y \in S \ {x} : LexLess(x, y)
         IN <<m>> \o SortTerms(S \ {m})

FeatureNames(docs, maxDfPercent, minDf) ==
    SortTerms(LimitFeatures(docs, maxDfPercent, minDf))

\* ndarray.argsort(): the index orders that put the values in ascending
\* order; the order of equal values is the sort routine's choice
ArgSorts(values) ==
    {p \in [1..Len(values) -> 1..Len(values)] :
        /\ \A i, j \in 1..Len(values) : i # j => p[i] # p[j]
        /\ \A i \in 1..(Len(values) - 1) : values[p[i]] <= values[p[i + 1]]}

\* seq[-n:]
PySliceLast(seq, n) ==
    LET start == IF n > 0
                 THEN (IF Len(seq) > n THEN Len(seq) - n ELSE 0)
                 ELSE (IF -n < Len(seq) THEN -n ELSE Len(seq))
    IN SubSeq(seq, start + 1, Len(seq))

\* seq[::-1]
Reverse(seq) == [i \in 1..Len(seq) |-> seq[Len(seq) + 1 - i]]

\* order[-n:], the reversal forgotten
TopIndicesAscending(order, n) == PySliceLast(order, n)

\* order[-n:][::-1]
TopIndices(order, n) == Reverse(PySliceLast(order, n))

(***************************************************************************)
(* TfidfVectorizer's matrix in thousandths: idf = ln((1+n)/(1+df)) + 1,    *)
(* tf-idf = count * idf, every row divided by its Euclidean norm.          *)
(***************************************************************************)
RECURSIVE SumOver(_, _)
SumOver(S, f) ==
    IF S = {} THEN 0
    ELSE LET x == CHOOSE y \in S : TRUE IN f[x] + SumOver(S \ {x}, f)

\* the integer square root, by bisection on lo..hi
RECURSIVE SqrtBetween(_, _, _)
SqrtBetween(x, lo, hi) ==
    IF lo >= hi THEN lo
    ELSE LET mid == (lo + hi + 1) \div 2
         IN IF mid * mid <= x THEN SqrtBetween(x, mid, hi)
            ELSE SqrtBetween(x, lo, mid - 1)

Isqrt(x) == SqrtBetween(x, 0, 46340)

IdfMilli(term, docs) == LnMilli[1 + Len(docs)] - LnMilli[1 + DocFreq(term, docs)] + 1000

TfIdfRaw(term, tokens, docs) == TermCount(term, tokens) * IdfMilli(term, docs)

RowNorm(tokens, docs, features) ==
    LET sq == [t \in features |-> TfIdfRaw(t, tokens, docs) * TfIdfRaw(t, tokens, docs)]
    IN Isqrt(SumOver(features, sq))

TfIdfMilli(term, tokens, docs, features) ==
    IF RowNorm(tokens, docs, features) = 0 THEN 0
    ELSE (TfIdfRaw(term, tokens, docs) * 1000) \div RowNorm(tokens, docs, features)

\* tfidf_matrix.sum(axis=0): the score of one term
TfIdfScore(term, docs, features) ==
    LET col == [d \in 1..Len(docs) |-> TfIdfMilli(term, docs[d], docs, features)]
    IN SumOver(1..Len(docs), col)

\* np.asarray(tfidf_matrix.sum(axis=0)).ravel()
RECURSIVE TfIdfScores(_, _, _)
TfIdfScores(names, docs, features) ==
    IF names = <<>> THEN <<>>
    ELSE <<TfIdfScore(Head(names), docs, features)>>
             \o TfIdfScores(Tail(names), docs, features)

(***************************************************************************)
(* extract_keywords: the results a call can have                           *)
(***************************************************************************)
\* the early return left out
NoTextsIgnored(texts) == FALSE

\* len(texts) == 0
NoTexts(texts) == Len(texts) = 0

KwResult(top_n, kind, value) ==
    [op |-> "extract_keywords", args |-> <<top_n>>, kind |-> kind, value |-> value]

extract_keywords(rows, top_n) ==
    LET texts == preprocess_responses(rows)
        docs == AnalyzeAll(texts)
        err == FitError(docs, KwMaxDfPercent, KwMinDf)
        names == FeatureNames(docs, KwMaxDfPercent, KwMinDf)
        scores == TfIdfScores(names, docs, Range(names))
        kw(order) == LET top == TopIndices(order, top_n)
                     IN [i \in 1..Len(top) |->
                            [word |-> names[top[i]], score |-> scores[top[i]]]]
    IN IF NoTexts(texts) THEN {KwResult(top_n, "keywords", <<>>)}
       ELSE IF err # "ok" THEN {KwResult(top_n, "raise", err)}
       ELSE {KwResult(top_n, "keywords", kw(order)) : order \in ArgSorts(scores)}

(***************************************************************************)
(* lda_topic_modeling: the results a call can have.  The weights of        *)
(* lda.components_ are whatever the fit yields: any positive value for     *)
(* every (topic, term).                                                    *)
(***************************************************************************)
LdaResult(n_topics, n_words, kind, value) ==
    [op |-> "lda_topic_modeling", args |-> <<n_topics, n_words>>, kind |-> kind,
     value |-> value]

\* a guard that fires on the empty corpus only
NotEnoughOnlyWhenEmpty(n_texts, n_topics) == n_texts = 0

\* len(texts) < n_topics
NotEnoughResponses(n_texts, n_topics) == n_texts < n_topics

\* one entry of `topics`
Topic(topic_idx, topic, names, order, n_words) ==
    LET top_words_idx == TopIndices(order, n_words)
    IN [topic_id |-> topic_idx,
        words |-> [i \in 1..Len(top_words_idx) |-> names[top_words_idx[i]]],
        weights |-> [i \in 1..Len(top_words_idx) |-> topic[top_words_idx[i]]]]

lda_topic_modeling(rows, n_topics, n_words) ==
    LET texts == preprocess_responses(rows)
        docs == AnalyzeAll(texts)
        err == FitError(docs, LdaMaxDfPercent, LdaMinDf)
        names == FeatureNames(docs, LdaMaxDfPercent, LdaMinDf)
        Components == [1..n_topics -> [1..Len(names) -> LdaWeights]]
        Orders(c) == {o \in [1..n_topics -> [1..Len(names) -> 1..Len(names)]] :
                         \A k \in 1..n_topics : o[k] \in ArgSorts(c[k])}
        topics(c, o) == [k \in 1..n_topics |-> Topic(k, c[k], names, o[k], n_words)]
    IN IF NotEnoughResponses(Len(texts), n_topics)
       THEN {LdaResult(n_topics, n_words, "error",
                       "Not enough responses for topic modeling")}
       ELSE IF err # "ok" THEN {LdaResult(n_topics, n_words, "raise", err)}
       ELSE UNION {{LdaResult(n_topics, n_words, "topics",
                              [topics |-> topics(c, o), n_responses |-> Len(texts)])
                      : o \in Orders(c)} : c \in Components}

(***************************************************************************)
(* text_statistics.  avg_words, avg_chars, median_words and std_words are  *)
(* kept in hundredths, as round(..., 2) leaves them.                       *)
(***************************************************************************)
\* [r.answer for r in responses if r.answer]
RECURSIVE NonEmptyAnswers(_)
NonEmptyAnswers(rows) ==
    IF rows = <<>> THEN <<>>
    ELSE IF Falsy(Head(rows)) THEN NonEmptyAnswers(Tail(rows))
    ELSE <<Head(rows)>> \o NonEmptyAnswers(Tail(rows))

\* len(text.split()): the number of maximal runs of non-whitespace characters
RECURSIVE SplitCount(_, _)
SplitCount(s, inWord) ==
    IF s = <<>> THEN 0
    ELSE IF IsSpace(Head(s)) THEN SplitCount(Tail(s), FALSE)
    ELSE (IF inWord THEN 0 ELSE 1) + SplitCount(Tail(s), TRUE)

\* [len(text.split()) for text in texts]
RECURSIVE WordCounts(_)
WordCounts(texts) ==
    IF texts = <<>> THEN <<>>
    ELSE <<SplitCount(Head(texts), FALSE)>> \o WordCounts(Tail(texts))

\* [len(text) for text in texts]
RECURSIVE CharCounts(_)
CharCounts(texts) ==
    IF texts = <<>> THEN <<>>
    ELSE <<Len(Head(texts))>> \o CharCounts(Tail(texts))

\* sum(xs)
RECURSIVE SumSeq(_)
SumSeq(xs) == IF xs = <<>> THEN 0 ELSE Head(xs) + SumSeq(Tail(xs))

RECURSIVE SumSquares(_)
SumSquares(xs) == IF xs = <<>> THEN 0 ELSE Head(xs) * Head(xs) + SumSquares(Tail(xs))

\* min(xs)
MinOf(xs) == CHOOSE m \in Range(xs) : \A x \in Range(xs) : m <= x

\* the last element taken for the largest
LastOf(xs) == xs[Len(xs)]

\* max(xs)
MaxOf(xs) == CHOOSE m \in Range(xs) : \A x \in Range(xs) : m >= x

\* xs without its first occurrence of x
RECURSIVE RemoveOne(_, _)
RemoveOne(xs, x) ==
    IF xs = <<>> THEN <<>>
    ELSE IF Head(xs) = x THEN Tail(xs)
    ELSE <<Head(xs)>> \o RemoveOne(Tail(xs), x)

\* the values in ascending order
RECURSIVE SortInts(_)
SortInts(xs) ==
    IF xs = <<>> THEN <<>>
    ELSE <<MinOf(xs)>> \o SortInts(RemoveOne(xs, MinOf(xs)))

\* round(np.mean(xs), 2) in hundredths.  A quotient of at most MaxDocs + 1
\* values never lies half-way between two hundredths, so the tie rule of
\* round() plays no part.
MeanCenti(xs) == (200 * SumSeq(xs) + Len(xs)) \div (2 * Len(xs))

\* round(np.median(xs), 2) in hundredths
MedianCenti(xs) ==
    LET s == SortInts(xs)
        n == Len(xs)
    IN IF n % 2 = 1 THEN 100 * s[(n + 1) \div 2]
       ELSE 50 * (s[n \div 2] + s[n \div 2 + 1])

\* round(np.std(xs), 2) in hundredths: the population standard deviation
\* sqrt(n * sum(x^2) - sum(x)^2) / n, to the nearest hundredth
StdCenti(xs) ==
    LET n == Len(xs)
        d == n * SumSquares(xs) - SumSeq(xs) * SumSeq(xs)
    IN (Isqrt(40000 * d) + n) \div (2 * n)

StatResult(kind, value) ==
    [op |-> "text_statistics", args |-> <<>>, kind |-> kind, value |-> value]

\* the early return left out
StatTextsIgnored(texts) == FALSE

\* if not texts
NoStatTexts(texts) == texts = <<>>

text_statistics(rows) ==
    LET texts == NonEmptyAnswers(rows)
        word_counts == WordCounts(texts)
        char_counts == CharCounts(texts)
    IN IF NoStatTexts(texts) THEN StatResult("error", "No text data available")
       ELSE IF word_counts = <<>>
       THEN StatResult("raise", "ValueError: min() arg is an empty sequence")
       ELSE StatResult("stats",
                [total_responses |-> Len(texts),
                 avg_words |-> MeanCenti(word_counts),
                 avg_chars |-> MeanCenti(char_counts),
                 min_words |-> MinOf(word_counts),
                 max_words |-> MaxOf(word_counts),
                 total_words |-> SumSeq(word_counts),
                 median_words |-> MedianCenti(word_counts),
                 std_words |-> StdCenti(word_counts)])

(***************************************************************************)
(* analyze_sentiment.  TextBlob's polarity is a number of [-1, 1] that the *)
(* library derives from the answer; it is kept in ten-thousandths and      *)
(* enters as an input, pol[i] for row i.                                   *)
(***************************************************************************)
\* the polarities TextBlob may give a non-empty answer: on the two
\* thresholds and just beyond them
Polarities == {-1004, -1000, 1000, 1004}

\* polarity > 0.1, polarity < -0.1
PositiveAbove == 1000
NegativeBelow == -1000

\* the polarity of every row; rows that are skipped get no TextBlob call
PolaritiesOf(rows) ==
    {pol \in [1..Len(rows) -> Polarities \cup {0}] :
        \A i \in 1..Len(rows) : Falsy(rows[i]) <=> pol[i] = 0}

\* thresholds that take in the boundary values
LabelAtThreshold(polarity) ==
    IF polarity >= PositiveAbove THEN "positive"
    ELSE IF polarity <= NegativeBelow THEN "negative"
    ELSE "neutral"

\* the classification of lines 97-102
SentimentLabel(polarity) ==
    IF polarity > PositiveAbove THEN "positive"
    ELSE IF polarity < NegativeBelow THEN "negative"
    ELSE "neutral"

\* round(polarity, 3) in thousandths; no value of Polarities lies half-way
Round3(polarity) ==
    IF polarity >= 0 THEN (polarity + 5) \div 10
    ELSE 0 - ((5 - polarity) \div 10)

\* a loop that skips no row
SkipNothing(answer) == FALSE

\* if not r.answer: continue
SkipAnswer(answer) == Falsy(answer)

\* the details list the loop builds
RECURSIVE SentimentDetails(_, _)
SentimentDetails(rows, pol) ==
    IF rows = <<>> THEN <<>>
    ELSE IF SkipAnswer(Head(rows)) THEN SentimentDetails(Tail(rows), Tail(pol))
    ELSE <<[answer |-> Head(rows),
            sentiment |-> SentimentLabel(Head(pol)),
            polarity |-> Round3(Head(pol))]>>
           \o SentimentDetails(Tail(rows), Tail(pol))

\* sentiments[sentiment] += 1, for every entry of details
LabelCount(details, label) ==
    Cardinality({i \in 1..Len(details) : details[i].sentiment = label})

analyze_sentiment(rows, pol) ==
    LET details == SentimentDetails(rows, pol)
    IN [op |-> "analyze_sentiment", args |-> <<pol>>, kind |-> "sentiment",
        value |-> [summary |-> [positive |-> LabelCount(details, "positive"),
                                neutral |-> LabelCount(details, "neutral"),
                                negative |-> LabelCount(details, "negative")],
                   details |-> details,
                   total |-> Len(details)]]

(***************************************************************************)
(* SpecAnalytics: one analytics call on a corpus of bounded size.          *)
(***************************************************************************)
Corpora == UNION {[1..n -> AnswerPool] : n \in 0..MaxDocs}

InitAnalytics ==
    /\ corpus \in Corpora
    /\ result = NoResult
    /\ ldaRuns = <<>>
    /\ ChartsIdle
    /\ users = {} /\ kuisioners = {} /\ questions = {} /\ responses = EmptyBag
    /\ nextId = [user |-> 1, kuisioner |-> 1, question |-> 1]
    /\ sessions = {}
    /\ reqs = [s \in Slots |-> IdleReq]
    /\ text = <<>>
    /\ cleaned = <<>>

LdaTopicModeling(n_topics, n_words) ==
    /\ result = NoResult
    /\ result' \in lda_topic_modeling(corpus, n_topics, n_words)
    /\ UNCHANGED <<corpus, ldaRuns, dbVars, textVars, chartVars>>

ExtractKeywords(top_n) ==
    /\ result = NoResult
    /\ result' \in extract_keywords(corpus, top_n)
    /\ UNCHANGED <<corpus, ldaRuns, dbVars, textVars, chartVars>>

\* a call of preprocess_responses on the rows
PreprocessResponses ==
    /\ result = NoResult
    /\ result' = [op |-> "preprocess_responses", args |-> <<>>, kind |-> "texts",
                  value |-> preprocess_responses(corpus)]
    /\ UNCHANGED <<corpus, ldaRuns, dbVars, textVars, chartVars>>

\* a call of text_statistics on the rows
TextStatistics ==
    /\ result = NoResult
    /\ result' = text_statistics(corpus)
    /\ UNCHANGED <<corpus, ldaRuns, dbVars, textVars, chartVars>>

\* a call of analyze_sentiment on the rows
AnalyzeSentiment(pol) ==
    /\ result = NoResult
    /\ result' = analyze_sentiment(corpus, pol)
    /\ UNCHANGED <<corpus, ldaRuns, dbVars, textVars, chartVars>>

NextAnalytics ==
    \/ \E n_topics \in NTopics, n_words \in NWords :
          LdaTopicModeling(n_topics, n_words)
    \/ \E top_n \in TopNs : ExtractKeywords(top_n)
    \/ PreprocessResponses
    \/ TextStatistics

SpecAnalytics == InitAnalytics /\ [][NextAnalytics]_vars

(***************************************************************************)
(* SpecSentiment: one call of analyze_sentiment.                           *)
(***************************************************************************)
\* the answers of the rows analyze_sentiment is called on
SentimentAnswers == {
    NoneText,                                           \* None
    <<>>,                                               \* ""
    <<"y", "a", " ", "i", "s">>,                        \* "ya is"
    <<"!", "!">> }                                      \* "!!"

SentimentCorpora == UNION {[1..n -> SentimentAnswers] : n \in 0..MaxDocs}

InitSentiment ==
    /\ corpus \in SentimentCorpora
    /\ result = NoResult
    /\ ldaRuns = <<>>
    /\ ChartsIdle
    /\ users = {} /\ kuisioners = {} /\ questions = {} /\ responses = EmptyBag
    /\ nextId = [user |-> 1, kuisioner |-> 1, question |-> 1]
    /\ sessions = {}
    /\ reqs = [s \in Slots |-> IdleReq]
    /\ text = <<>>
    /\ cleaned = <<>>

NextSentiment == \E pol \in PolaritiesOf(corpus) : AnalyzeSentiment(pol)

SpecSentiment == InitSentiment /\ [][NextSentiment]_vars

(***************************************************************************)
(* SpecLda: lda_topic_modeling run again on the same rows.  What           *)
(* LatentDirichletAllocation.fit and argsort yield is a function of their  *)
(* input and of the seed of the random number generator: a run that has    *)
(* the input and the seed of an earlier run repeats its result.            *)
(***************************************************************************)
MaxLdaRuns == 2

\* random_state=42
RandomState == 42

\* the seeds the operating system may hand a generator that is given none
Entropy == {1, 2}

\* random_state=None: every run seeds itself from the operating system
SeedFromEntropy(entropy) == entropy

\* the seed of a run's generator
LdaSeed(entropy) == RandomState

InitLda ==
    /\ corpus \in Corpora
    /\ result = NoResult
    /\ ldaRuns = <<>>
    /\ ChartsIdle
    /\ users = {} /\ kuisioners = {} /\ questions = {} /\ responses = EmptyBag
    /\ nextId = [user |-> 1, kuisioner |-> 1, question |-> 1]
    /\ sessions = {}
    /\ reqs = [s \in Slots |-> IdleReq]
    /\ text = <<>>
    /\ cleaned = <<>>

\* one run; the runs after the first are given the arguments of the first
LdaRun(n_topics, n_words, entropy) ==
    /\ Len(ldaRuns) < MaxLdaRuns
    /\ ldaRuns # <<>> => ldaRuns[1].result.args = <<n_topics, n_words>>
    /\ LET earlier == {i \in 1..Len(ldaRuns) : ldaRuns[i].seed = LdaSeed(entropy)}
           outcomes == IF earlier = {}
                       THEN lda_topic_modeling(corpus, n_topics, n_words)
                       ELSE {ldaRuns[i].result : i \in earlier}
       IN \E r \in outcomes :
             ldaRuns' = Append(ldaRuns, [seed |-> LdaSeed(entropy), result |-> r])
    /\ UNCHANGED <<corpus, result, dbVars, textVars, chartVars>>

NextLda ==
    \E n_topics \in NTopics, n_words \in NWords, entropy \in Entropy :
        LdaRun(n_topics, n_words, entropy)

SpecLda == InitLda /\ [][NextLda]_vars

(***************************************************************************)
(* The chart functions.  Each one builds a figure with plt.subplots or     *)
(* plt.figure, which makes it pyplot's current figure, then saves and      *)
(* closes whatever figure is current: plt.savefig, plt.close.  pyplot's    *)
(* figure list belongs to the process, not to the calling thread.          *)
(***************************************************************************)
MaxChartDocs == 2

\* the answers of the rows the charts are drawn from
ChartAnswers == {
    <<>>,                                               \* ""
    <<"i", "s", " ", "t", "h", "e">>,                   \* "is the"
    <<"Y", "a", " ", "o", "k", " ", "x">> }             \* "Ya ok x"

ChartCorpora == UNION {[1..n -> ChartAnswers] : n \in 0..MaxChartDocs}

ChartNames == {"chart_distribution", "create_pie_chart", "generate_wordcloud",
               "create_sentiment_chart", "create_word_frequency_chart",
               "create_response_length_chart", "create_top_contributors_chart",
               "create_keyword_comparison_chart", "create_comprehensive_stats_chart"}

\* extract_keywords(responses, top_n=12)
KeywordChartTopN == 12

\* if len(text.strip()) < 10
MinCloudTextLen == 10

\* " ".join(texts)
RECURSIVE JoinSpace(_)
JoinSpace(texts) ==
    IF texts = <<>> THEN <<>>
    ELSE IF Len(texts) = 1 THEN Head(texts)
    ELSE Head(texts) \o <<" ">> \o JoinSpace(Tail(texts))

\* generate_wordcloud draws one of its two "tidak ada data" texts
CloudFallback(rows) ==
    LET texts == preprocess_responses(rows)
    IN \/ texts = <<>>
       \/ Len(Strip(JoinSpace(texts))) < MinCloudTextLen

\* WordCloud.generate: the words of the text that are no stop words
CloudWords(rows) ==
    RemoveStopWords(Runs(JoinSpace(preprocess_responses(rows)), <<>>))

\* what extract_keywords hands create_keyword_comparison_chart: "raise",
\* "empty" or "keywords" (the same for every order argsort may choose)
KeywordData(rows) ==
    LET r == CHOOSE x \in extract_keywords(rows, KeywordChartTopN) : TRUE
    IN IF r.kind = "raise" THEN "raise"
       ELSE IF r.value = <<>> THEN "empty"
       ELSE "keywords"

\* the call raises before it has made a figure
RaisesBeforeFigure(name, rows) ==
    CASE name = "generate_wordcloud" ->
            \* ValueError: We need at least 1 word to plot a word cloud
            ~ CloudFallback(rows) /\ CloudWords(rows) = <<>>
      [] name = "create_keyword_comparison_chart" -> KeywordData(rows) = "raise"
      [] OTHER -> FALSE

\* the call raises after plt.subplots, leaving its figure open:
\* min(word_counts) on an empty list
RaisesAfterFigure(name, rows) ==
    /\ name = "create_response_length_chart"
    /\ rows # <<>>
    /\ WordCounts(NonEmptyAnswers(rows)) = <<>>

\* the branch the function takes: its "Tidak ada data" placeholder, or a
\* chart of the data
FigureKind(name, rows) ==
    LET placeholder ==
          CASE name \in {"chart_distribution", "create_pie_chart",
                         "create_response_length_chart",
                         "create_top_contributors_chart"} ->
                  rows = <<>>                           \* if not responses
            [] name = "generate_wordcloud" -> CloudFallback(rows)
            [] name = "create_sentiment_chart" ->       \* if not details
                  SentimentDetails(rows, [i \in 1..Len(rows) |-> 0]) = <<>>
            [] name = "create_word_frequency_chart" ->  \* if not texts
                  preprocess_responses(rows) = <<>>
            [] name = "create_keyword_comparison_chart" ->
                  KeywordData(rows) = "empty"
            [] name = "create_comprehensive_stats_chart" ->
                  text_statistics(rows).kind = "error"  \* if 'error' in stats
    IN IF placeholder THEN "placeholder" ELSE "chart"

\* the slot a new call takes: the first one that is idle
FreeChartSlot(s) ==
    /\ renders[s].pc = "idle"
    /\ \A u \in ChartSlots : u < s => renders[u].pc # "idle"

\* the call up to and including plt.subplots / plt.figure and the drawing
RenderBuild(s, name, filename) ==
    /\ FreeChartSlot(s)
    /\ IF RaisesBeforeFigure(name, corpus)
       THEN /\ renders' = [renders EXCEPT ![s] =
                    [IdleRender EXCEPT !.pc = "done", !.name = name,
                                       !.filename = filename, !.out = "raise"]]
            /\ UNCHANGED figs
       ELSE /\ figs' = Append(figs, [by |-> s, kind |-> FigureKind(name, corpus)])
            /\ renders' = [renders EXCEPT ![s] =
                    [IdleRender EXCEPT
                        !.pc = IF RaisesAfterFigure(name, corpus) THEN "done" ELSE "save",
                        !.name = name, !.filename = filename,
                        !.built = FigureKind(name, corpus),
                        !.out = IF RaisesAfterFigure(name, corpus) THEN "raise" ELSE None]]
    /\ UNCHANGED <<files, dbVars, textVars, anaVars>>

\* plt.gcf(): the current figure; with no figure open pyplot makes a blank one
CurrentFigure == IF figs = <<>> THEN [by |-> 0, kind |-> "blank"] ELSE figs[Len(figs)]

\* plt.tight_layout(); plt.savefig(path, ...)
RenderSave(s) ==
    /\ renders[s].pc = "save"
    /\ LET path == ChartPath(renders[s].filename)
           saves == Cardinality({u \in ChartSlots : renders[u].order > 0})
       IN /\ files' = [files EXCEPT ![path] =
                          [kind |-> CurrentFigure.kind, by |-> CurrentFigure.by,
                           saved_by |-> s]]
          /\ renders' = [renders EXCEPT ![s] =
                          [@ EXCEPT !.pc = "close", !.path = path,
                                    !.order = saves + 1]]
    /\ figs' = IF figs = <<>> THEN <<CurrentFigure>> ELSE figs
    /\ UNCHANGED <<dbVars, textVars, anaVars>>

\* plt.close(); return path
RenderClose(s) ==
    /\ renders[s].pc = "close"
    /\ figs' = IF figs = <<>> THEN figs ELSE SubSeq(figs, 1, Len(figs) - 1)
    /\ renders' = [renders EXCEPT ![s] =
                     [@ EXCEPT !.pc = "done", !.out = renders[s].path]]
    /\ UNCHANGED <<files, dbVars, textVars, anaVars>>

InitCharts ==
    /\ corpus \in ChartCorpora
    /\ result = NoResult
    /\ ldaRuns = <<>>
    /\ ChartsIdle
    /\ users = {} /\ kuisioners = {} /\ questions = {} /\ responses = EmptyBag
    /\ nextId = [user |-> 1, kuisioner |-> 1, question |-> 1]
    /\ sessions = {}
    /\ reqs = [s \in Slots |-> IdleReq]
    /\ text = <<>>
    /\ cleaned = <<>>

NextCharts ==
    \/ \E s \in ChartSlots, name \in ChartNames, filename \in ChartFilenames :
          RenderBuild(s, name, filename)
    \/ \E s \in ChartSlots : RenderSave(s)
    \/ \E s \in ChartSlots : RenderClose(s)

SpecCharts == InitCharts /\ [][NextCharts]_vars

Init ==
    /\ users = {}
    /\ kuisioners = {}
    /\ questions = {}
    /\ responses = EmptyBag
    /\ nextId = [user |-> 1, kuisioner |-> 1, question |-> 1]
    /\ sessions = {}
    /\ reqs = [s \in Slots |-> IdleReq]
    /\ text = <<>>
    /\ cleaned = <<>>
    /\ corpus = <<>>
    /\ result = NoResult
    /\ ldaRuns = <<>>
    /\ ChartsIdle

Next ==
    \/ \E email \in Emails, nama \in Names : AuthCallback(email, nama)
    \/ \E email \in Emails, title \in Titles : CreateKuisioner(email, title)
    \/ \E kid \in KuisionerIds, qtext \in QuestionTexts : AddQuestion(kid, qtext)
    \/ \E u \in UserIds, q \in QuestionIds, a \in Answers : CreateResponse(u, q, a)
    \/ \E s \in Slots, kid \in KuisionerIds, nama \in Names, email \in Emails :
          \E form \in Forms(kid) : SubmitSurvey(s, kid, nama, email, form)
    \/ \E s \in Slots : SubmitCheck(s)
    \/ \E s \in Slots : SubmitInsert(s)
    \/ \E kid \in KuisionerIds : DeleteKuisioner(kid)
    \/ \E q \in QuestionIds : DeleteQuestion(q)

Spec == Init /\ [][Next]_vars

(***************************************************************************)
(* Survey submissions to published kuisioners: a lecturer has logged in and *)
(* created two kuisioners, the first with two questions, the second with   *)
(* one; respondents submit forms, two requests at a time.                  *)
(***************************************************************************)
SurveyOwner == [id |-> 1, email |-> "dosen@unesa.ac.id", nama |-> "Ani",
                role |-> "mahasiswa", photo_url |-> None]

SurveyKuisionerIds == {1, 2}

SurveyQuestions ==
    {[id |-> 1, kuisioner_id |-> 1, text |-> "Pendapat?"],
     [id |-> 2, kuisioner_id |-> 1, text |-> "Pendapat?"],
     [id |-> 3, kuisioner_id |-> 2, text |-> "Pendapat?"]}

SurveyQuestionIds == {q.id : q \in SurveyQuestions}

InitSurvey ==
    /\ users = {SurveyOwner}
    /\ kuisioners = {NewKuisioner(kid, "Survei", SurveyOwner.id, None, "white") :
                        kid \in SurveyKuisionerIds}
    /\ questions = SurveyQuestions
    /\ responses = EmptyBag
    /\ nextId = [user |-> 2, kuisioner |-> 3, question |-> 4]
    /\ sessions = {SurveyOwner.email}
    /\ reqs = [s \in Slots |-> IdleReq]
    /\ text = <<>>
    /\ cleaned = <<>>
    /\ corpus = <<>>
    /\ result = NoResult
    /\ ldaRuns = <<>>
    /\ ChartsIdle

NextSurvey ==
    \/ \E s \in Slots, kid \in SurveyKuisionerIds, nama \in Names, email \in Emails :
          \E form \in Forms(kid) : SubmitSurvey(s, kid, nama, email, form)
    \/ \E s \in Slots : SubmitCheck(s)
    \/ \E s \in Slots : SubmitInsert(s)
    \/ \E u \in UserIds, q \in SurveyQuestionIds, a \in Answers : CreateResponse(u, q, a)

SpecSurvey == InitSurvey /\ [][NextSurvey]_vars

(***************************************************************************)
(* crud.update_kuisioner.  A str is a sequence of one-character strings, a *)
(* datetime is <<year, month, day>>.                                       *)
(***************************************************************************)
DigitValue(c) ==
    CASE c = "0" -> 0 [] c = "1" -> 1 [] c = "2" -> 2 [] c = "3" -> 3 [] c = "4" -> 4
      [] c = "5" -> 5 [] c = "6" -> 6 [] c = "7" -> 7 [] c = "8" -> 8 [] c = "9" -> 9

\* the number written by the digits s[from..to]
RECURSIVE DigitsValue(_, _, _)
DigitsValue(s, from, to) ==
    IF to < from THEN 0
    ELSE 10 * DigitsValue(s, from, to - 1) + DigitValue(s[to])

IsLeap(y) == (y % 4 = 0 /\ y % 100 # 0) \/ y % 400 = 0

DaysInMonth(y, m) ==
    IF m = 2 THEN (IF IsLeap(y) THEN 29 ELSE 28)
    ELSE IF m \in {4, 6, 9, 11} THEN 30 ELSE 31

\* datetime.datetime.fromisoformat on a "YYYY-MM-DD" string returns a value
IsIsoFormat(s) ==
    /\ Len(s) = 10
    /\ s[5] = "-" /\ s[8] = "-"
    /\ \A i \in {1, 2, 3, 4, 6, 7, 9, 10} : s[i] \in Digits
    /\ DigitsValue(s, 1, 4) >= 1
    /\ DigitsValue(s, 6, 7) \in 1..12
    /\ DigitsValue(s, 9, 10) \in 1..DaysInMonth(DigitsValue(s, 1, 4), DigitsValue(s, 6, 7))

\* the value it returns
fromisoformat(s) == <<DigitsValue(s, 1, 4), DigitsValue(s, 6, 7), DigitsValue(s, 9, 10)>>

\* the end_date argument: None, a str or a datetime
NoEndDate == [kind |-> "None"]
StrEndDate(s) == [kind |-> "str", str |-> s]
DatetimeEndDate(d) == [kind |-> "datetime", datetime |-> d]

\* crud.py:111-118
EndDateAfterUpdate(old, end_date) ==
    IF end_date.kind = "None" THEN old
    ELSE IF end_date.kind = "str"                          \* isinstance(end_date, str)
         THEN (IF IsIsoFormat(end_date.str) THEN fromisoformat(end_date.str)
               ELSE old)                                   \* except: pass
         ELSE end_date.datetime

\* update_kuisioner with `if title:` in place of `if title is not None:`
UpdatedIfTruthy(k, title, description, background, theme, access, end_date) ==
    [k EXCEPT !.title = IF title \notin {None, ""} THEN title ELSE @,
              !.description = IF description # None THEN description ELSE @,
              !.background = IF background # None THEN background ELSE @,
              !.theme = IF theme # None THEN theme ELSE @,
              !.access = IF access # None THEN access ELSE @,
              !.end_date = EndDateAfterUpdate(@, end_date)]

\* crud.py:101-118: the row k after the assignments
UpdatedKuisioner(k, title, description, background, theme, access, end_date) ==
    [k EXCEPT !.title = IF title # None THEN title ELSE @,
              !.description = IF description # None THEN description ELSE @,
              !.background = IF background # None THEN background ELSE @,
              !.theme = IF theme # None THEN theme ELSE @,
              !.access = IF access # None THEN access ELSE @,
              !.end_date = EndDateAfterUpdate(@, end_date)]

\* the value a crud call returns: None or the refreshed row
ReturnedNone == [kind |-> "None"]
ReturnedRow(k) == [kind |-> "row", row |-> k]

\* crud.update_kuisioner; result holds the value the call returns
UpdateKuisioner(kuisioner_id, title, description, background, theme, access, end_date) ==
    /\ IF ~ HasKuisioner(kuisioner_id)
       THEN /\ result' = ReturnedNone
            /\ UNCHANGED kuisioners
       ELSE LET k == get_kuisioner(kuisioner_id)
                k1 == UpdatedKuisioner(k, title, description, background, theme,
                                       access, end_date)
            IN /\ result' = ReturnedRow(k1)
               /\ kuisioners' = (kuisioners \ {k}) \cup {k1}
    /\ UNCHANGED <<users, questions, responses, nextId, sessions, reqs>>
    /\ UNCHANGED <<corpus, ldaRuns, textVars, chartVars>>

\* the arguments of the calls
UpdateTitles == {None, "", "Baru"}
\* <<description, background, theme, access>>: none, one or all of them given
UpdateTexts == {<<None, None, None, None>>,
                <<"d", None, None, None>>,
                <<None, "blue", None, None>>,
                <<None, None, "dark", None>>,
                <<None, None, None, "unesa_only">>,
                <<"d", "blue", "dark", "unesa_only">>}
\* an id no kuisioner has
UnknownKuisionerId == Cardinality(SurveyKuisionerIds) + 1
IsoStrings == {<<"2", "0", "2", "5", "-", "0", "1", "-", "3", "1">>,
               <<"2", "0", "2", "5", "-", "0", "2", "-", "3", "0">>,
               <<"b", "e", "s", "o", "k">>}
UpdateEndDates ==
    {NoEndDate, DatetimeEndDate(<<2024, 12, 31>>)} \cup {StrEndDate(s) : s \in IsoStrings}

\* two kuisioners of one lecturer are stored
InitUpdate ==
    /\ users = {SurveyOwner}
    /\ kuisioners = {NewKuisioner(kid, "Survei", SurveyOwner.id, None, "white") :
                        kid \in SurveyKuisionerIds}
    /\ questions = {}
    /\ responses = EmptyBag
    /\ nextId = [user |-> 2, kuisioner |-> 3, question |-> 1]
    /\ sessions = {SurveyOwner.email}
    /\ reqs = [s \in Slots |-> IdleReq]
    /\ text = <<>>
    /\ cleaned = <<>>
    /\ corpus = <<>>
    /\ result = NoResult
    /\ ldaRuns = <<>>
    /\ ChartsIdle

NextUpdate ==
    \/ \E title \in UpdateTitles, t \in UpdateTexts, end_date \in UpdateEndDates :
          UpdateKuisioner(1, title, t[1], t[2], t[3], t[4], end_date)
    \/ \E title \in UpdateTitles :
          UpdateKuisioner(UnknownKuisionerId, title, None, None, None, None, NoEndDate)

SpecUpdate == InitUpdate /\ [][NextUpdate]_vars

(***************************************************************************)
(* Managing kuisioners: two UNESA users log in, create, edit and delete    *)
(* kuisioners and questions, with or without a session cookie, while a     *)
(* guest answers surveys, one request at a time.                           *)
(***************************************************************************)
ManageEmails == {"dosen@unesa.ac.id", "mhs@mhs.unesa.ac.id"}
\* the session cookie of a request: the email it was signed for, or None
Cookies == ManageEmails \cup {None}
GuestEmail == "tamu@gmail.com"
EditTitle == "Baru"
EditText == "Setuju?"

NextManage ==
    \/ \E email \in ManageEmails, nama \in Names : AuthCallback(email, nama)
    \/ \E email \in ManageEmails, title \in Titles : CreateKuisioner(email, title)
    \/ \E kid \in KuisionerIds, qtext \in QuestionTexts : AddQuestion(kid, qtext)
    \/ \E cookie \in Cookies, kid \in KuisionerIds :
          EditKuisioner(cookie, kid, EditTitle, None, "white", "light", "public")
    \/ \E kid \in KuisionerIds :
          UpdateKuisioner(kid, EditTitle, None, None, None, None, NoEndDate)
    \/ \E q \in QuestionIds : EditQuestion(q, EditText)
    \/ \E kid \in KuisionerIds : DeleteKuisioner(kid)
    \/ \E q \in QuestionIds : DeleteQuestion(q)
    \/ \E kid \in KuisionerIds, nama \in Names :
          \E form \in Forms(kid) : SubmitSurvey(1, kid, nama, GuestEmail, form)
    \/ SubmitCheck(1)
    \/ SubmitInsert(1)

SpecManage == Init /\ [][NextManage]_vars

(***************************************************************************)
(* crud.get_or_create_user, called in any order with any arguments, next   *)
(* to logins.                                                              *)
(***************************************************************************)
\* crud.get_or_create_user; result holds the row the call returns
GetOrCreateUser(email, nama, role, photo_url) ==
    /\ users' = UsersAfterGetOrCreate(email, nama, role, photo_url)
    /\ nextId' = NextIdAfterGetOrCreate(email)
    /\ result' = ReturnedRow(CHOOSE u \in users' : u.email = email)
    /\ UNCHANGED <<kuisioners, questions, responses, sessions, reqs>>
    /\ UNCHANGED <<corpus, ldaRuns, textVars, chartVars>>

UserNames == {"", "Budi"}
UserRoles == {"public", "dosen"}
PhotoUrls == {None, "", "p.png"}

NextUsers ==
    \/ \E email \in Emails, nama \in UserNames, role \in UserRoles,
          photo_url \in PhotoUrls : GetOrCreateUser(email, nama, role, photo_url)
    \/ \E email \in Emails, nama \in Names : AuthCallback(email, nama)

SpecUsers == Init /\ [][NextUsers]_vars

(***************************************************************************)
(* Analytics calls made one after another on the same rows, as the stats   *)
(* page makes them.  ldaRuns is the log of the calls; fit, argsort and     *)
(* TextBlob are functions of their input, so a call repeated with the same *)
(* arguments computes what the earlier one computed.                       *)
(***************************************************************************)
MaxCalls == 2

StatelessAnswers == {
    <<"!", "!">>,                                       \* "!!"
    <<"y", "a", " ", "i", "s">>,                        \* "ya is"
    <<"Y", "a", " ", "o", "k", " ", "x">>,              \* "Ya ok x"
    <<"o", "k", " ", "i", "s", " ", "b", "u">> }        \* "ok is bu"

StatelessCorpora == UNION {[1..n -> StatelessAnswers] : n \in 0..2}

\* preprocess_responses writing the cleaned text back into the rows
RowsCleanedInPlace(rows) == [i \in 1..Len(rows) |-> clean_text(rows[i])]

\* the rows after an analytics call: the functions read r.answer and build
\* new lists, they assign to no row
RowsAfterCall(rows) == rows

InitStateless ==
    /\ corpus \in StatelessCorpora
    /\ result = NoResult
    /\ ldaRuns = <<>>
    /\ ChartsIdle
    /\ users = {SurveyOwner}
    /\ kuisioners = {NewKuisioner(kid, "Survei", SurveyOwner.id, None, "white") :
                        kid \in SurveyKuisionerIds}
    /\ questions = SurveyQuestions
    /\ responses = EmptyBag
    /\ nextId = [user |-> 2, kuisioner |-> 3, question |-> 4]
    /\ sessions = {SurveyOwner.email}
    /\ reqs = [s \in Slots |-> IdleReq]
    /\ text = <<>>
    /\ cleaned = <<>>

\* the logged results of the earlier calls of op with arguments of same
EarlierResults(op, same) ==
    {ldaRuns[i].result : i \in {j \in 1..Len(ldaRuns) :
                                  /\ ldaRuns[j].result.op = op
                                  /\ ldaRuns[j].result.args \in same}}

\* one call that returns a value of outcomes, or what the same call returned
\* before
AnalyticsCall(earlier, outcomes) ==
    /\ Len(ldaRuns) < MaxCalls
    /\ \E r \in (IF earlier = {} THEN outcomes ELSE earlier) :
          /\ result' = r
          /\ ldaRuns' = Append(ldaRuns, [seed |-> RandomState, result |-> r])
    /\ corpus' = RowsAfterCall(corpus)
    /\ UNCHANGED <<dbVars, textVars, chartVars>>

LdaCall(n_topics, n_words) ==
    AnalyticsCall(EarlierResults("lda_topic_modeling", {<<n_topics, n_words>>}),
                     lda_topic_modeling(corpus, n_topics, n_words))

KeywordsCall(top_n) ==
    AnalyticsCall(EarlierResults("extract_keywords", {<<top_n>>}),
                     extract_keywords(corpus, top_n))

StatisticsCall == AnalyticsCall({}, {text_statistics(corpus)})

SentimentCall ==
    AnalyticsCall(EarlierResults("analyze_sentiment",
                                 {<<pol>> : pol \in PolaritiesOf(corpus)}),
                  {analyze_sentiment(corpus, pol) : pol \in PolaritiesOf(corpus)})

NextStateless ==
    \/ \E n_topics \in NTopics : LdaCall(n_topics, 1)
    \/ \E top_n \in {1, 2} : KeywordsCall(top_n)
    \/ StatisticsCall
    \/ SentimentCall

SpecStateless == InitStateless /\ [][NextStateless]_vars

(***************************************************************************)
(* Properties                                                              *)
(***************************************************************************)
\* the number of rows the table holds for one (user_id, question_id) pair
ResponseCount(rows, user_id, question_id) ==
    LET pair == {r \in BagToSet(rows) :
                    r.user_id = user_id /\ r.question_id = question_id}
    IN SumOver(pair, [r \in pair |-> CopiesIn(r, rows)])

\* C1: in every reachable state the responses table holds at most one row
\* per (user_id, question_id) pair, whatever the order of survey submissions
\* and create_response calls and however two submissions interleave.
C1_OneResponsePerPair ==
    \A u \in UserIds, q \in QuestionIds : ResponseCount(responses, u, q) <= 1

\* a respondent's repeated submission has been rejected while the first
\* answer is stored
C1_Witness ==
    \E s \in Slots :
        /\ reqs[s].outcome = "400"
        /\ \E u \in UserIds, q \in QuestionIds : ResponseCount(responses, u, q) = 1

IsLda == result.op = "lda_topic_modeling"
IsKw == result.op = "extract_keywords"

\* C2: lda_topic_modeling called with fewer non-empty answers than n_topics
\* returns the "not enough responses" error result: no topics, no raise.
C2_NotEnoughResponses ==
    (IsLda /\ NonEmptyCount(corpus) < result.args[1]) =>
        /\ result.kind = "error"
        /\ result.value = "Not enough responses for topic modeling"

\* the call had enough rows but too few of them non-empty
C2_Witness ==
    /\ IsLda
    /\ NonEmptyCount(corpus) < result.args[1]
    /\ NonEmptyCount(corpus) >= 1
    /\ Len(corpus) >= result.args[1]
    /\ result.kind = "error"

\* weights in descending order
Descending(ws) == \A i \in 1..(Len(ws) - 1) : ws[i] >= ws[i + 1]

\* C3: with at least n_topics non-empty answers lda_topic_modeling returns
\* exactly n_topics topics, each of exactly n_words terms in descending
\* order of weight.
C3_ExactTopics ==
    (IsLda /\ NonEmptyCount(corpus) >= result.args[1]) =>
        /\ result.kind = "topics"
        /\ Len(result.value.topics) = result.args[1]
        /\ \A k \in 1..Len(result.value.topics) :
              /\ Len(result.value.topics[k].words) = result.args[2]
              /\ Len(result.value.topics[k].weights) = result.args[2]
              /\ Descending(result.value.topics[k].weights)

\* enough non-empty answers, topics returned, and a topic that lists fewer
\* than n_words terms because the pruned vocabulary is smaller than n_words
C3_Witness ==
    /\ IsLda
    /\ NonEmptyCount(corpus) >= result.args[1]
    /\ result.kind = "topics"
    /\ \E k \in 1..Len(result.value.topics) :
          Len(result.value.topics[k].words) < result.args[2]

\* C4: on a corpus of size 0, 1 or 2 no analytics call raises.
C4_NoRaiseOnSmallInput ==
    (Len(corpus) <= 2) => result.kind # "raise"

\* extract_keywords raised on a corpus of one answer that holds a term
C4_Witness ==
    /\ IsKw
    /\ Len(corpus) = 1
    /\ RawVocabulary(AnalyzeAll(preprocess_responses(corpus))) # {}
    /\ result.kind = "raise"

\* C5: extract_keywords never returns more than top_n entries.
C5_AtMostTopN ==
    (IsKw /\ result.kind = "keywords") => Len(result.value) <= result.args[1]

\* top_n = 0 and the whole vocabulary returned
C5_Witness ==
    /\ IsKw
    /\ result.args[1] = 0
    /\ result.kind = "keywords"
    /\ Len(result.value) >= 2

\* C6: extract_keywords called with top_n <= 0 returns no keyword list.
C6_FailFast ==
    (IsKw /\ result.args[1] <= 0) => result.kind # "keywords"

\* top_n = 0 on a corpus without a non-empty answer: the early return
\* hands back a keyword list without looking at top_n
C6_Witness ==
    /\ IsKw
    /\ result.args[1] <= 0
    /\ NonEmptyCount(corpus) = 0
    /\ result.kind = "keywords"

\* C7: no stop word is among the keywords extract_keywords returns.
C7_NoStopWords ==
    (IsKw /\ result.kind = "keywords") =>
        \A i \in 1..Len(result.value) : result.value[i].word \notin StopWords

\* keywords were returned for a corpus whose answers hold a stop word
C7_Witness ==
    /\ IsKw
    /\ result.kind = "keywords"
    /\ Len(result.value) > 0
    /\ \E d \in 1..Len(corpus) :
          ~ Falsy(corpus[d]) /\ Range(Tokenize(clean_text(corpus[d]))) \cap StopWords # {}

\* C8: the returned keywords are in non-increasing order of score, and no
\* term of the vocabulary that was left out scores higher than a returned one.
C8_TopByScore ==
    (IsKw /\ result.kind = "keywords") =>
        LET docs == AnalyzeAll(preprocess_responses(corpus))
            names == FeatureNames(docs, KwMaxDfPercent, KwMinDf)
            returned == {result.value[i].word : i \in 1..Len(result.value)}
        IN /\ \A i \in 1..(Len(result.value) - 1) :
                 result.value[i].score >= result.value[i + 1].score
           /\ \A t \in Range(names) \ returned : \A i \in 1..Len(result.value) :
                 result.value[i].score >= TfIdfScore(t, docs, Range(names))

\* two keywords of different score were returned and a term of lower score
\* was left out
C8_Witness ==
    /\ IsKw
    /\ result.kind = "keywords"
    /\ Len(result.value) >= 2
    /\ result.value[1].score > result.value[2].score
    /\ LET docs == AnalyzeAll(preprocess_responses(corpus))
           names == FeatureNames(docs, KwMaxDfPercent, KwMinDf)
           returned == {result.value[i].word : i \in 1..Len(result.value)}
       IN \E t \in Range(names) \ returned :
             TfIdfScore(t, docs, Range(names)) < result.value[Len(result.value)].score

\* C9: extract_keywords on a corpus without a non-empty answer returns the
\* empty keyword list, not an error and not an exception.
C9_EmptyCorpus ==
    (IsKw /\ NonEmptyCount(corpus) = 0) =>
        /\ result.kind = "keywords"
        /\ Len(result.value) = 0

\* the call was made on rows whose answers are all None or empty
C9_Witness ==
    /\ IsKw
    /\ Len(corpus) >= 2
    /\ NonEmptyCount(corpus) = 0
    /\ result.kind = "keywords"

\* C10: clean_text(clean_text(s)) = clean_text(s) for every string s.
C10_Idempotent ==
    (Len(cleaned) = 2) => cleaned[2] = cleaned[1]

\* "a ! a" cleans to "a  a" (two spaces), which cleans to "a a"
C10_Witness ==
    /\ text = <<"a", " ", "!", " ", "a">>
    /\ cleaned = << <<"a", " ", " ", "a">>, <<"a", " ", "a">> >>

\* no two neighbouring characters of s are both spaces
NoDoubleSpace(s) == \A i \in 1..(Len(s) - 1) : ~ (s[i] = " " /\ s[i + 1] = " ")

\* C11: the output of clean_text holds no run of two or more spaces.
C11_SingleSpaces ==
    (Len(cleaned) >= 1) => NoDoubleSpace(cleaned[1])

\* "a<TAB>! a" cleans to "a  a": the two spaces around the removed "!" stay
C11_Witness ==
    /\ text = <<"a", "\t", "!", " ", "a">>
    /\ Len(cleaned) = 1
    /\ cleaned[1] = <<"a", " ", " ", "a">>

IsPre == result.op = "preprocess_responses"

\* C12: preprocess_responses drops the rows whose answer is empty or None,
\* returns the cleaned answer of every other row in the original order, and
\* no element of what it returns is the empty string.
C12_Preprocess ==
    IsPre =>
        LET kept == NonEmptyAnswers(corpus)
        IN /\ Len(result.value) = Len(kept)
           /\ \A i \in 1..Len(kept) : result.value[i] = clean_text(kept[i])
           /\ \A i \in 1..Len(result.value) : result.value[i] # <<>>

\* a non-empty answer of punctuation only came out as the empty string,
\* next to an answer that kept its words
C12_Witness ==
    /\ IsPre
    /\ Len(result.value) >= 2
    /\ \E i \in 1..Len(result.value) : result.value[i] = <<>>
    /\ \E i \in 1..Len(result.value) : result.value[i] # <<>>

IsStat == result.op = "text_statistics"

\* C13: text_statistics on a corpus without a non-empty answer returns the
\* "No text data available" error result and no statistic.
C13_NoData ==
    (IsStat /\ NonEmptyCount(corpus) = 0) =>
        /\ result.kind = "error"
        /\ result.value = "No text data available"

\* the call was made on rows whose answers are all None or empty
C13_Witness ==
    /\ IsStat
    /\ Len(corpus) >= 2
    /\ NonEmptyCount(corpus) = 0
    /\ result.kind = "error"

\* the word counts of the non-empty answers of the corpus
CorpusWordCounts ==
    {SplitCount(corpus[i], FALSE) : i \in {j \in 1..Len(corpus) : ~ Falsy(corpus[j])}}

\* C14: with at least one non-empty answer text_statistics reports
\* total_responses = the number of non-empty answers, total_words = the sum
\* of the answers' word counts, min_words and max_words = the smallest and
\* the largest word count, and median_words and avg_words between them.
C14_Statistics ==
    (IsStat /\ NonEmptyCount(corpus) >= 1) =>
        /\ result.kind = "stats"
        /\ LET v == result.value
               idx == {j \in 1..Len(corpus) : ~ Falsy(corpus[j])}
           IN /\ v.total_responses = NonEmptyCount(corpus)
              /\ v.total_words =
                    SumOver(idx, [j \in idx |-> SplitCount(corpus[j], FALSE)])
              /\ v.min_words \in CorpusWordCounts
              /\ \A c \in CorpusWordCounts : v.min_words <= c
              /\ v.max_words \in CorpusWordCounts
              /\ \A c \in CorpusWordCounts : c <= v.max_words
              /\ 100 * v.min_words <= v.median_words
              /\ v.median_words <= 100 * v.max_words
              /\ 100 * v.min_words <= v.avg_words
              /\ v.avg_words <= 100 * v.max_words

\* answers of different lengths, an empty one among the rows, and a mean
\* that is not a whole number
C14_Witness ==
    /\ IsStat
    /\ result.kind = "stats"
    /\ NonEmptyCount(corpus) < Len(corpus)
    /\ result.value.min_words < result.value.max_words
    /\ result.value.avg_words % 100 # 0
    /\ result.value.max_words # LastOf(WordCounts(NonEmptyAnswers(corpus)))

IsSent == result.op = "analyze_sentiment"

\* the positions of the rows with a non-empty answer, in order
RECURSIVE NonEmptyPositions(_, _)
NonEmptyPositions(rows, from) ==
    IF from > Len(rows) THEN <<>>
    ELSE IF Falsy(rows[from]) THEN NonEmptyPositions(rows, from + 1)
    ELSE <<from>> \o NonEmptyPositions(rows, from + 1)

\* C15: an answer is labelled positive exactly when its polarity is above
\* 0.1, negative exactly when it is below -0.1, and neutral otherwise;
\* polarity 0.1 and polarity -0.1 are neutral.
C15_Thresholds ==
    IsSent =>
        LET pos == NonEmptyPositions(corpus, 1)
            pol == result.args[1]
            details == result.value.details
        IN \A i \in 1..Len(details) :
              /\ i <= Len(pos)
              /\ (details[i].sentiment = "positive") <=> (pol[pos[i]] > 1000)
              /\ (details[i].sentiment = "negative") <=> (pol[pos[i]] < -1000)
              /\ (details[i].sentiment = "neutral") <=>
                    (pol[pos[i]] >= -1000 /\ pol[pos[i]] <= 1000)

\* an answer of polarity exactly 0.1 labelled neutral next to one just
\* above 0.1 labelled positive, both reported as 0.1 after rounding, and an
\* answer of polarity exactly -0.1 labelled neutral
C15_Witness ==
    /\ IsSent
    /\ Len(result.value.details) = 3
    /\ result.args[1] = <<1000, 1004, -1000>>
    /\ result.value.details[1].sentiment = "neutral"
    /\ result.value.details[2].sentiment = "positive"
    /\ result.value.details[1].polarity = result.value.details[2].polarity
    /\ result.value.details[3].sentiment = "neutral"

\* C16: analyze_sentiment skips every empty or None answer, and total =
\* the length of details = positive + neutral + negative = the number of
\* non-empty answers, with details in the order of the rows.
C16_SentimentTotals ==
    IsSent =>
        LET pos == NonEmptyPositions(corpus, 1)
            v == result.value
        IN /\ v.total = Len(v.details)
           /\ v.total = v.summary.positive + v.summary.neutral + v.summary.negative
           /\ v.total = NonEmptyCount(corpus)
           /\ Len(v.details) = Len(pos)
           /\ \A i \in 1..Len(v.details) :
                 i <= Len(pos) => v.details[i].answer = corpus[pos[i]]

\* a None or empty row was skipped between two scored answers of
\* different labels
C16_Witness ==
    /\ IsSent
    /\ Len(corpus) = 3
    /\ Falsy(corpus[2])
    /\ result.value.total = 2
    /\ result.value.summary.negative = 1
    /\ result.value.summary.neutral = 1
    /\ result.value.details[2].answer = corpus[3]
    /\ corpus[1] # corpus[3]

\* C17: on rows without a non-empty answer every chart function draws its
\* "no data" placeholder, writes the file static/charts/<filename> and
\* returns that path without raising.
C17_EmptyPlaceholder ==
    (NonEmptyCount(corpus) = 0) =>
        \A s \in ChartSlots :
            /\ renders[s].out # "raise"
            /\ renders[s].pc # "idle" => renders[s].built = "placeholder"
            /\ renders[s].pc = "done" =>
                  /\ renders[s].out = <<"static", "charts", renders[s].filename>>
                  /\ files[renders[s].out].kind # "none"

\* create_response_length_chart raised on one row with an empty answer
C17_Witness ==
    /\ Len(corpus) = 1
    /\ NonEmptyCount(corpus) = 0
    /\ \E s \in ChartSlots :
          /\ renders[s].name = "create_response_length_chart"
          /\ renders[s].out = "raise"

\* C18: a chart render saves the figure it built itself, never the figure
\* of a render running at the same time.
C18_OwnFigureSaved ==
    \A s \in ChartSlots :
        renders[s].order > 0 =>
            \A p \in ChartPaths :
                files[p].saved_by = s => files[p].by = s

\* two renders with different filenames are over, and the file of one of
\* them holds the figure the other built
C18_Witness ==
    /\ \A s \in ChartSlots : renders[s].pc = "done" /\ renders[s].order > 0
    /\ renders[1].filename # renders[2].filename
    /\ \E s \in ChartSlots :
          /\ files[renders[s].path].saved_by = s
          /\ files[renders[s].path].by # s
          /\ files[renders[s].path].by # 0

\* C19: the path a render writes and returns is static/charts/<filename>;
\* renders with different filenames write different paths, and of two
\* renders with the same filename the one that saved last leaves the file.
C19_PathByFilename ==
    \A s \in ChartSlots :
        renders[s].order > 0 =>
            /\ renders[s].path = <<"static", "charts", renders[s].filename>>
            /\ renders[s].pc = "done" => renders[s].out = renders[s].path
            /\ \A u \in ChartSlots \ {s} :
                  renders[u].order > 0 =>
                      /\ renders[u].filename # renders[s].filename =>
                            renders[u].path # renders[s].path
                      /\ (/\ renders[u].filename = renders[s].filename
                          /\ renders[u].order < renders[s].order) =>
                            files[renders[s].path].saved_by = s

\* two renders saved to the same filename and two saved to different ones:
\* here the same filename, the second save left the file
C19_Witness ==
    /\ \A s \in ChartSlots : renders[s].pc = "done" /\ renders[s].order > 0
    /\ renders[1].filename = renders[2].filename
    /\ renders[2].order < renders[1].order
    /\ files[renders[1].path].saved_by = 1

ReferentialIntegrity ==
    /\ \A r \in BagToSet(responses) : \E q \in questions : q.id = r.question_id
    /\ \A q \in questions : \E k \in kuisioners : k.id = q.kuisioner_id

\* what the two delete routes leave behind
DeleteEffects ==
    /\ \A kid \in KuisionerIds :
          DeleteKuisioner(kid) =>
             /\ \A k \in kuisioners' : k.id # kid
             /\ \A q \in questions' : q.kuisioner_id # kid
             /\ \A r \in BagToSet(responses') :
                   \A q \in questions : q.kuisioner_id = kid => r.question_id # q.id
    /\ \A qid \in QuestionIds :
          DeleteQuestion(qid) =>
             /\ \A q \in questions' : q.id # qid
             /\ \A r \in BagToSet(responses') : r.question_id # qid

StoredDataUnchanged == UNCHANGED <<users, kuisioners, questions, responses>>

C26_LoserGets400 ==
    [][\A s \in Slots :
          (/\ reqs[s].pc = "insert"
           /\ ResponseCount(responses, reqs[s].user_id, Head(reqs[s].todo)[1]) >= 1
           /\ SubmitInsert(s))
          => (/\ reqs'[s].outcome = "400"
              /\ ResponseCount(responses', reqs[s].user_id, Head(reqs[s].todo)[1]) = 1)]_vars

\* both submissions have passed the existence query for the same new pair
C26_Witness ==
    /\ reqs[1].pc = "insert" /\ reqs[2].pc = "insert"
    /\ reqs[1].user_id = reqs[2].user_id
    /\ Head(reqs[1].todo)[1] = Head(reqs[2].todo)[1]
    /\ ResponseCount(responses, reqs[1].user_id, Head(reqs[1].todo)[1]) = 0


\* C25: a survey submission rejected as a duplicate (HTTP 400) stores
\* nothing: the stored responses after the request equal those before it,
\* also for questions earlier in the loop that the user had not answered.
C25_RejectedStoresNothing ==
    \A s \in Slots : reqs[s].outcome = "400" => reqs[s].stored = 0

\* a submission reaches the existence query of a later question after it
\* has committed the answer to an earlier one
C25_Witness ==
    \E s \in Slots : reqs[s].pc = "check" /\ reqs[s].stored = 1

\* C29: submit_survey for kuisioner kid stores responses only for questions
\* that belong to kid, and only with a non-empty form value.
C29_OwnQuestionsNonEmpty ==
    [][\A s \in Slots :
          (SubmitInsert(s) /\ responses' # responses) =>
             \E q \in questions, a \in FormValues :
                /\ responses' = InsertResponse(responses, reqs[s].user_id, q.id, a)
                /\ q.kuisioner_id = reqs[s].kid
                /\ a # ""]_vars

\* a submission to the second kuisioner has stored its answer while the
\* first kuisioner's questions have none
C29_Witness ==
    /\ \E s \in Slots : reqs[s].outcome = "303" /\ reqs[s].stored = 1
    /\ \A r \in BagToSet(responses) : r.question_id = 3


\* the row of kuisioners' with the id of k
RowAfter(k) == CHOOSE k2 \in kuisioners' : k2.id = k.id

\* the effect the call has by its arguments
UpdateEffect(kuisioner_id, title, description, background, theme, access, end_date) ==
    IF \A k \in kuisioners : k.id # kuisioner_id
    THEN result' = ReturnedNone /\ StoredDataUnchanged
    ELSE /\ \A k \in kuisioners : k.id # kuisioner_id => k \in kuisioners'
         /\ {k.id : k \in kuisioners'} = {k.id : k \in kuisioners}
         /\ UNCHANGED <<users, questions, responses>>
         /\ \A k \in kuisioners :
              k.id = kuisioner_id =>
                 LET k2 == RowAfter(k) IN
                 /\ result' = ReturnedRow(k2)
                 /\ k2.owner_id = k.owner_id
                 /\ k2.title = (IF title = None THEN k.title ELSE title)
                 /\ k2.description =
                       (IF description = None THEN k.description ELSE description)
                 /\ k2.background =
                       (IF background = None THEN k.background ELSE background)
                 /\ k2.theme = (IF theme = None THEN k.theme ELSE theme)
                 /\ k2.access = (IF access = None THEN k.access ELSE access)
                 /\ end_date.kind = "None" => k2.end_date = k.end_date
                 /\ end_date.kind = "datetime" => k2.end_date = end_date.datetime
                 /\ end_date = StrEndDate(<<"2", "0", "2", "5", "-", "0", "1", "-", "3", "1">>)
                       => k2.end_date = <<2025, 1, 31>>
                 /\ end_date \in {StrEndDate(<<"2", "0", "2", "5", "-", "0", "2", "-", "3", "0">>),
                                   StrEndDate(<<"b", "e", "s", "o", "k">>)}
                       => k2.end_date = k.end_date

\* C30: crud.update_kuisioner changes exactly the fields whose argument is
\* not None and leaves the other fields and the other kuisioners unchanged;
\* for an unknown kuisioner_id it returns None and changes nothing; an
\* end_date string that is not valid ISO leaves end_date unchanged.
C30_UpdateExactly ==
    [][/\ \A title \in UpdateTitles, t \in UpdateTexts, end_date \in UpdateEndDates :
            UpdateKuisioner(1, title, t[1], t[2], t[3], t[4], end_date)
            => UpdateEffect(1, title, t[1], t[2], t[3], t[4], end_date)
       /\ \A title \in UpdateTitles :
            UpdateKuisioner(UnknownKuisionerId, title, None, None, None, None, NoEndDate)
            => UpdateEffect(UnknownKuisionerId, title, None, None, None, None, NoEndDate)]_vars

\* a call has returned a row whose title was set to the empty string, whose
\* description and end_date were set and whose theme is still the default
C30_Witness ==
    /\ result.kind = "row"
    /\ result.row.title = ""
    /\ result.row.end_date = <<2025, 1, 31>>
    /\ result.row.description = "d"
    /\ result.row.theme = "light"


\* C22: create_kuisioner stores the id of the session user who creates the
\* kuisioner as owner_id, and no later operation (crud.update_kuisioner, the
\* edit route, adding, editing or deleting a question, a survey submission)
\* changes the owner_id of a stored kuisioner.
C22_OwnerFixed ==
    [][/\ \A email \in ManageEmails, title \in Titles :
            CreateKuisioner(email, title) =>
               \A k \in kuisioners' \ kuisioners :
                  \E u \in users : u.email = email /\ k.owner_id = u.id
       /\ \A k \in kuisioners, k2 \in kuisioners' :
            k2.id = k.id => k2.owner_id = k.owner_id]_vars

\* a kuisioner of the second user carries the edited title after
\* crud.update_kuisioner was called, with a question and a response stored
C22_Witness ==
    /\ \E k \in kuisioners : k.owner_id = 2 /\ k.title = EditTitle
    /\ result # NoResult
    /\ questions # {}
    /\ responses # EmptyBag

\* the request with this cookie comes from the owner of kuisioner kid
IsOwner(cookie, kid) ==
    \E u \in users, k \in kuisioners :
       /\ cookie \in sessions
       /\ u.email = cookie
       /\ k.id = kid
       /\ k.owner_id = u.id

\* C23: a request that edits or deletes a kuisioner, or adds, edits or
\* deletes one of its questions, changes stored data only when the session
\* user is the kuisioner's owner; from another user or without a session it
\* leaves the stored data unchanged.
C23_OwnerOnly ==
    [][\A cookie \in Cookies, kid \in KuisionerIds :
          ~ IsOwner(cookie, kid) =>
             /\ EditKuisioner(cookie, kid, EditTitle, None, "white", "light", "public")
                   => StoredDataUnchanged
             /\ DeleteKuisioner(kid) => StoredDataUnchanged
             /\ \A qtext \in QuestionTexts : AddQuestion(kid, qtext) => StoredDataUnchanged
             /\ \A q \in questions :
                   q.kuisioner_id = kid =>
                      /\ EditQuestion(q.id, EditText) => StoredDataUnchanged
                      /\ DeleteQuestion(q.id) => StoredDataUnchanged]_vars

\* a kuisioner has been deleted while one user, its owner, has a session
C23_Witness ==
    /\ kuisioners = {}
    /\ nextId.kuisioner > 1
    /\ Cardinality(sessions) = 1


\* what get_or_create_user does for an email that has a row
ExistingUserKept(email, nama, photo_url) ==
    \A u \in users :
       u.email = email =>
          \E u2 \in users' :
             /\ result' = ReturnedRow(u2)
             /\ users' \ {u2} = users \ {u}
             /\ u2.email = email
             /\ u2.id = u.id
             /\ u2.role = u.role
             /\ u2.nama = (IF nama = "" THEN u.nama ELSE nama)
             /\ u2.photo_url = (IF photo_url \in {None, ""} THEN u.photo_url
                                ELSE photo_url)

FirstCallResults(r, rows) ==
    CASE r.op = "lda_topic_modeling" -> lda_topic_modeling(rows, r.args[1], r.args[2])
      [] r.op = "extract_keywords" -> extract_keywords(rows, r.args[1])
      [] r.op = "text_statistics" -> {text_statistics(rows)}
      [] r.op = "analyze_sentiment" -> {analyze_sentiment(rows, r.args[1])}

\* every logged result is one the call could have returned as the first
\* call, and two calls of one function with the same arguments agree
HistoryIndependent ==
    /\ \A i \in 1..Len(ldaRuns) :
          ldaRuns[i].result \in FirstCallResults(ldaRuns[i].result, corpus)
    /\ \A i \in 1..Len(ldaRuns), j \in 1..Len(ldaRuns) :
          (/\ ldaRuns[i].result.op = ldaRuns[j].result.op
           /\ ldaRuns[i].result.op # "analyze_sentiment"
           /\ ldaRuns[i].result.args = ldaRuns[j].result.args)
          => ldaRuns[i].result = ldaRuns[j].result
    /\ \A i \in 1..Len(ldaRuns), j \in 1..Len(ldaRuns) :
          (/\ ldaRuns[i].result.op = "analyze_sentiment"
           /\ ldaRuns[j].result.op = "analyze_sentiment")
          => ldaRuns[i].result.value = ldaRuns[j].result.value

====
